---- MODULE Spec2Model ----
(***************************************************************************)
(* Model of bio_files_processor.py: the four file-to-file operations       *)
(*   convert_multiline_fasta_to_oneline, select_genes_from_gbk_to_fasta,   *)
(*   change_fasta_start_pos and parse_blast_output.                        *)
(* Text is modelled as sequences of tokens (a token is a character or an   *)
(* indivisible marker such as the newline "\n"); a file is a sequence of   *)
(* lines.  Every operation has its own specification.                      *)
(***************************************************************************)
EXTENDS Integers, Sequences, FiniteSets, TLC

VARIABLES
    pc,                 \* position of the running call
    err,                \* the exception the call raised, or "none"
    fin,                \* lines of the input file (FASTA or BLAST report)
    pos,                \* number of lines of fin the loop has consumed
    seq,                \* convert_multiline_fasta_to_oneline: accumulator
    fout,               \* output file of the FASTA/BLAST operations
    shift,              \* change_fasta_start_pos: the shift argument
    query,              \* parse_blast_output: flag
    description,        \* parse_blast_output: flag
    best_blast_results, \* parse_blast_output: captured descriptions
    gbk,                \* lines of the GenBank file read so far
    cds_coord_list,     \* ordered coordinate list
    coord_cds_dict,     \* lookup: coordinate -> <<gene name, translation>>
    genes_names_dict,   \* gene index: gene name -> coordinate
    translation_seq,    \* list of translation pieces being accumulated
    record_translation, \* the "recording translation" flag
    gene_name,          \* last gene name seen
    coord,              \* coordinate being tracked ("" before the first CDS)
    genes,              \* requested genes the selection loop has taken so far
    n_before,           \* argument
    n_after,            \* argument
    cds_of_interest,    \* the selected window
    fasta,              \* output file of select_genes_from_gbk_to_fasta
    written             \* number of records of the window written so far

ioVars    == <<fin, pos, fout>>
flatVars  == <<seq>>
shiftVars == <<shift>>
blastVars == <<query, description, best_blast_results>>
scanVars  == <<gbk, cds_coord_list, coord_cds_dict, genes_names_dict,
               translation_seq, record_translation, gene_name, coord>>
selVars   == <<genes, n_before, n_after, cds_of_interest, fasta, written>>
gbkVars   == <<scanVars, selVars>>
vars      == <<pc, err, ioVars, flatVars, shiftVars, blastVars, gbkVars>>

(***************************************************************************)
(* Bounds of the model.                                                    *)
(***************************************************************************)
MaxGbkLines   == 5   \* lines of a GenBank file, scan-only specification
MaxCallLines  == 4   \* lines of a GenBank file, whole-call specification
MaxGenes      == 2   \* length of the requested gene list
MaxNeighbours == 2   \* largest n_before / n_after
MaxFastaLines == 3   \* lines of a FASTA file
MaxShift      == 3   \* largest shift
MaxBlastLines == 6   \* lines of a BLAST report

(***************************************************************************)
(* Python helpers.                                                         *)
(***************************************************************************)
NL == "\n"

Min(a, b) == IF a < b THEN a ELSE b
Max(a, b) == IF a > b THEN a ELSE b

\* Python's normalisation of a slice index i for a sequence of length n.
PyIndex(i, n) == IF i < 0 THEN Max(n + i, 0) ELSE Min(i, n)

\* s[lo:hi]
PySlice(s, lo, hi) == SubSeq(s, PyIndex(lo, Len(s)) + 1, PyIndex(hi, Len(s)))

\* s[lo:]
PySliceFrom(s, lo) == SubSeq(s, PyIndex(lo, Len(s)) + 1, Len(s))

\* s[:hi]
PySliceTo(s, hi) == SubSeq(s, 1, PyIndex(hi, Len(s)))

\* "".join(parts)
RECURSIVE Join(_)
Join(parts) == IF parts = <<>> THEN <<>> ELSE Head(parts) \o Join(Tail(parts))

\* d[k] = v on a dict
EmptyDict == [k \in {} |-> <<>>]
DictPut(d, k, v) == [x \in (DOMAIN d) \cup {k} |-> IF x = k THEN v ELSE d[x]]

\* list.index(x): 0-based position of the first occurrence
ListIndex(list, x) == CHOOSE i \in 0..(Len(list) - 1) :
                          /\ list[i + 1] = x
                          /\ \A j \in 0..(i - 1) : list[j + 1] # x
InList(list, x) == \E i \in 1..Len(list) : list[i] = x

\* a file object: whether the file exists on disk, the mode it was opened in,
\* and its content
NoFile == [exists |-> FALSE, mode |-> "closed", data |-> <<>>]

(***************************************************************************)
(* select_genes_from_gbk_to_fasta: lines of a GenBank file.                *)
(* A line is a record: kind says which of the literal tests of the scan it *)
(* passes, val is the token the scan extracts from it (the coordinate of a *)
(* CDS line, the text between the first pair of quotes otherwise), text is *)
(* line.strip().strip('"'), and closed says whether the line ends with the *)
(* closing quote of a /translation block.                                  *)
(***************************************************************************)
Coords    == {"1..5", "6..9"}
GeneNames == {"g1", "g2"}

CdsLine(c)    == [kind |-> "CDS", val |-> <<c>>, text |-> <<"CDS ", c>>, closed |-> FALSE]
GeneLine(g)   == [kind |-> "gene", val |-> <<g>>, text |-> <<"/gene=", g>>, closed |-> FALSE]
TranslLine(aa, cl) ==
    [kind |-> "translation", val |-> aa, text |-> <<"/translation=">> \o aa, closed |-> cl]
TextLine(aa, cl) == [kind |-> "text", val |-> <<>>, text |-> aa, closed |-> cl]
OtherLine     == [kind |-> "other", val |-> <<"x">>, text |-> <<"/product=", "x">>, closed |-> FALSE]
OriginLine    == [kind |-> "ORIGIN", val |-> <<>>, text |-> <<"ORIGIN">>, closed |-> FALSE]

\* the lines a GenBank file is made of
GbkLines ==
    {CdsLine(c) : c \in Coords} \cup {GeneLine(g) : g \in GeneNames}
    \cup {TranslLine(<<"M">>, cl) : cl \in BOOLEAN}
    \cup {TextLine(<<"K">>, TRUE), OtherLine, OriginLine}

IsCdsLine(line)         == line.kind = "CDS"           \* line.strip().startswith('CDS ')
HasGeneTag(line)        == line.kind = "gene"          \* '/gene' in line
HasTranslationTag(line) == line.kind = "translation"   \* '/translation' in line
IsOriginLine(line)      == line.kind = "ORIGIN"        \* line.strip().startswith('ORIGIN')
SecondField(line)       == line.val[1]                 \* line.split()[1]
FirstQuoted(line)       == line.val                    \* line.split('"')[1]
Stripped(line)          == line.text                   \* line.strip().strip('"')

\* cds_coord_list.append(coord) skipping a coordinate that is already listed
AppendCoordUnique(list, c) == IF InList(list, c) THEN list ELSE Append(list, c)

\* cds_coord_list.append(coord) (line 62)
AppendCoord(list, c) == Append(list, c)

\* the entry stored in the lookup when a coordinate is finalised
Entry(name, parts) == <<name, Join(parts)>>

(***************************************************************************)
(* One iteration of the scan loop (lines 56-74).                           *)
(***************************************************************************)
ScanLine(line) ==
    /\ pc = "scan"
    /\ LET isCds   == IsCdsLine(line)
           isGene  == ~isCds /\ HasGeneTag(line)
           \* first if / elif chain
           dict1   == IF isCds /\ coord # ""
                      THEN DictPut(coord_cds_dict, coord, Entry(gene_name, translation_seq))
                      ELSE coord_cds_dict
           parts1  == IF isCds /\ coord # "" THEN <<>> ELSE translation_seq
           coord1  == IF isCds THEN SecondField(line) ELSE coord
           rec1    == IF isCds THEN FALSE ELSE record_translation
           name1   == IF isGene THEN FirstQuoted(line)[1] ELSE gene_name
           \* second if / elif / elif chain
           isTr    == ~rec1 /\ HasTranslationTag(line)
           isOri   == ~rec1 /\ ~isTr /\ IsOriginLine(line)
       IN  /\ gbk' = Append(gbk, line)
           /\ cds_coord_list' = IF isCds THEN AppendCoord(cds_coord_list, coord1)
                                ELSE cds_coord_list
           /\ coord' = coord1
           /\ gene_name' = name1
           /\ genes_names_dict' = IF isGene THEN DictPut(genes_names_dict, name1, coord)
                                  ELSE genes_names_dict
           /\ translation_seq' = IF rec1 THEN Append(parts1, Stripped(line))
                                 ELSE IF isTr THEN Append(parts1, FirstQuoted(line))
                                 ELSE parts1
           /\ record_translation' = IF isTr THEN TRUE
                                    ELSE IF isOri THEN FALSE
                                    ELSE rec1
           /\ coord_cds_dict' = IF isOri THEN DictPut(dict1, coord1, Entry(name1, parts1))
                                ELSE dict1
    /\ UNCHANGED <<pc, err, ioVars, flatVars, shiftVars, blastVars, selVars>>

\* the GenBank file is exhausted: the selection starts (line 76)
ScanEnd ==
    /\ pc = "scan"
    /\ pc' = "select"
    /\ cds_of_interest' = <<>>
    /\ UNCHANGED <<err, ioVars, flatVars, shiftVars, blastVars, scanVars,
                   genes, n_before, n_after, fasta, written>>

(***************************************************************************)
(* The selection loop (lines 78-85), one requested gene per step.          *)
(***************************************************************************)
TooManyBefore == "ValueError: Too many neighbours CDSs before gene of interest are requested. Change number!"
TooManyAfter  == "ValueError: Too many neighbours CDSs after gene of interest are requested. Change number!"
NotInList     == "ValueError: x is not in list"
KeyError      == "KeyError"

\* SelectError with the two validation checks in the other order
SelectErrorAfterFirst(gene) ==
    IF gene \notin DOMAIN genes_names_dict THEN KeyError
    ELSE IF ~InList(cds_coord_list, genes_names_dict[gene]) THEN NotInList
    ELSE LET gene_position == ListIndex(cds_coord_list, genes_names_dict[gene])
         IN  IF Len(PySliceFrom(cds_coord_list, gene_position)) < n_after
             THEN TooManyAfter
             ELSE IF Len(PySliceTo(cds_coord_list, gene_position)) < n_before
             THEN TooManyBefore
             ELSE "none"

\* SelectError with a missing gene reported as a ValueError, not a KeyError
SelectErrorMissingAsValue(gene) ==
    IF gene \notin DOMAIN genes_names_dict THEN NotInList
    ELSE IF ~InList(cds_coord_list, genes_names_dict[gene]) THEN NotInList
    ELSE LET gene_position == ListIndex(cds_coord_list, genes_names_dict[gene])
         IN  IF Len(PySliceTo(cds_coord_list, gene_position)) < n_before
             THEN TooManyBefore
             ELSE IF Len(PySliceFrom(cds_coord_list, gene_position)) < n_after
             THEN TooManyAfter
             ELSE "none"

\* SelectError without the check of n_before
SelectErrorNoBefore(gene) ==
    IF gene \notin DOMAIN genes_names_dict THEN KeyError
    ELSE IF ~InList(cds_coord_list, genes_names_dict[gene]) THEN NotInList
    ELSE LET gene_position == ListIndex(cds_coord_list, genes_names_dict[gene])
         IN  IF Len(PySliceFrom(cds_coord_list, gene_position)) < n_after
             THEN TooManyAfter
             ELSE "none"

\* the outcome of one iteration for a gene: the exception it raises, or "none"
SelectError(gene) ==
    IF gene \notin DOMAIN genes_names_dict THEN KeyError
    ELSE IF ~InList(cds_coord_list, genes_names_dict[gene]) THEN NotInList
    ELSE LET gene_position == ListIndex(cds_coord_list, genes_names_dict[gene])
         IN  IF Len(PySliceTo(cds_coord_list, gene_position)) < n_before
             THEN TooManyBefore
             ELSE IF Len(PySliceFrom(cds_coord_list, gene_position)) < n_after
             THEN TooManyAfter
             ELSE "none"

\* line 85
Window(gene_position) ==
    PySlice(cds_coord_list, gene_position - n_before, gene_position + n_after + 1)

\* SelectGene with the windows of the genes accumulated
SelectGeneAccumulate(gene) ==
    /\ pc = "select"
    /\ Len(genes) < MaxGenes
    /\ genes' = Append(genes, gene)
    /\ LET e == SelectError(gene)
       IN  IF e # "none"
           THEN /\ pc' = "raised"
                /\ err' = e
                /\ UNCHANGED cds_of_interest
           ELSE /\ cds_of_interest' = cds_of_interest \o
                       Window(ListIndex(cds_coord_list, genes_names_dict[gene]))
                /\ UNCHANGED <<pc, err>>
    /\ UNCHANGED <<ioVars, flatVars, shiftVars, blastVars, scanVars,
                   n_before, n_after, fasta, written>>

\* one iteration of the selection loop (lines 78-85)
SelectGene(gene) ==
    /\ pc = "select"
    /\ Len(genes) < MaxGenes
    /\ genes' = Append(genes, gene)
    /\ LET e == SelectError(gene)
       IN  IF e # "none"
           THEN /\ pc' = "raised"
                /\ err' = e
                /\ UNCHANGED cds_of_interest
           ELSE /\ cds_of_interest' =
                       Window(ListIndex(cds_coord_list, genes_names_dict[gene]))
                /\ UNCHANGED <<pc, err>>
    /\ UNCHANGED <<ioVars, flatVars, shiftVars, blastVars, scanVars,
                   n_before, n_after, fasta, written>>

\* the gene list is exhausted: the output directory is made and the output
\* file is opened for writing (lines 87-94)
OpenFasta ==
    /\ pc = "select"
    /\ pc' = "write"
    /\ fasta' = [exists |-> TRUE, mode |-> "w", data |-> <<>>]
    /\ written' = 0
    /\ UNCHANGED <<err, ioVars, flatVars, shiftVars, blastVars, scanVars,
                   genes, n_before, n_after, cds_of_interest>>

\* f'>{cds} gene:{name}\n{translation}\n'
FastaRecord(cds, entry) ==
    <<">", cds, " gene:", entry[1], NL>> \o entry[2] \o <<NL>>

\* one iteration of the writing loop (lines 95-96)
WriteRecord ==
    /\ pc = "write"
    /\ written < Len(cds_of_interest)
    /\ LET cds == cds_of_interest[written + 1]
       IN  IF cds \in DOMAIN coord_cds_dict
           THEN /\ fasta' = [fasta EXCEPT !.data = @ \o FastaRecord(cds, coord_cds_dict[cds])]
                /\ written' = written + 1
                /\ UNCHANGED <<pc, err>>
           ELSE /\ pc' = "raised"
                /\ err' = KeyError
                /\ fasta' = [fasta EXCEPT !.mode = "closed"]
                /\ UNCHANGED written
    /\ UNCHANGED <<ioVars, flatVars, shiftVars, blastVars, scanVars,
                   genes, n_before, n_after, cds_of_interest>>

\* the window is written: the file is closed (line 97)
WriteEnd ==
    /\ pc = "write"
    /\ written = Len(cds_of_interest)
    /\ pc' = "done"
    /\ fasta' = [fasta EXCEPT !.mode = "closed"]
    /\ UNCHANGED <<err, ioVars, flatVars, shiftVars, blastVars, scanVars,
                   genes, n_before, n_after, cds_of_interest, written>>

(***************************************************************************)
(* Initial states.                                                         *)
(***************************************************************************)
IdleIo    == fin = <<>> /\ pos = 0 /\ fout = NoFile
IdleFlat  == seq = <<>>
IdleShift == shift = 0
IdleBlast == query = FALSE /\ description = FALSE /\ best_blast_results = <<>>
IdleGbk   ==
    /\ gbk = <<>> /\ cds_coord_list = <<>> /\ coord_cds_dict = EmptyDict
    /\ genes_names_dict = EmptyDict /\ translation_seq = <<>>
    /\ record_translation = FALSE /\ gene_name = "" /\ coord = ""
    /\ genes = <<>> /\ n_before = 0 /\ n_after = 0
    /\ cds_of_interest = <<>> /\ fasta = NoFile /\ written = 0

\* state at line 55 (the arguments are those of the call)
InitGbk ==
    /\ pc = "scan" /\ err = "none"
    /\ IdleIo /\ IdleFlat /\ IdleShift /\ IdleBlast
    /\ gbk = <<>> /\ cds_coord_list = <<>> /\ coord_cds_dict = EmptyDict
    /\ genes_names_dict = EmptyDict /\ translation_seq = <<>>
    /\ record_translation = FALSE /\ gene_name = "" /\ coord = ""
    /\ genes = <<>>
    /\ n_before \in 0..MaxNeighbours /\ n_after \in 0..MaxNeighbours
    /\ cds_of_interest = <<>> /\ fasta = NoFile /\ written = 0

\* the scan alone, with the default arguments n_before = n_after = 1
InitScan ==
    /\ pc = "scan" /\ err = "none"
    /\ IdleIo /\ IdleFlat /\ IdleShift /\ IdleBlast
    /\ gbk = <<>> /\ cds_coord_list = <<>> /\ coord_cds_dict = EmptyDict
    /\ genes_names_dict = EmptyDict /\ translation_seq = <<>>
    /\ record_translation = FALSE /\ gene_name = "" /\ coord = ""
    /\ genes = <<>> /\ n_before = 1 /\ n_after = 1
    /\ cds_of_interest = <<>> /\ fasta = NoFile /\ written = 0

ReadGbkLine  == \E line \in GbkLines : Len(gbk) < MaxGbkLines /\ ScanLine(line)
ReadCallLine == \E line \in GbkLines : Len(gbk) < MaxCallLines /\ ScanLine(line)
TakeGene     == \E gene \in GeneNames : SelectGene(gene)

NextScan == ReadGbkLine \/ ScanEnd
SpecScan == InitScan /\ [][NextScan]_vars

Next == ReadCallLine \/ ScanEnd \/ TakeGene \/ OpenFasta \/ WriteRecord \/ WriteEnd
Spec == InitGbk /\ [][Next]_vars

(***************************************************************************)
(* FASTA files: a line is the sequence of its characters, its terminating  *)
(* newline included; only the last line of a file may lack the newline.    *)
(***************************************************************************)
FastaLines ==
    { <<">", "s", NL>>, <<"A", "C", "G", NL>>, <<"T", NL>>, <<"G", "A">> }

Terminated(line) == line # <<>> /\ line[Len(line)] = NL

FastaFiles ==
    { f \in UNION { [1..n -> FastaLines] : n \in 0..MaxFastaLines } :
          \A i \in 1..(Len(f) - 1) : Terminated(f[i]) }

\* line.startswith(prefix), prefix a single token
StartsWith(line, prefix) == line # <<>> /\ line[1] = prefix

\* whether write() is allowed on a file object
Writable(f) == f.mode = "w"

\* content of an output file that is there before the call
OldData == <<"o", "l", "d", NL>>

(***************************************************************************)
(* convert_multiline_fasta_to_oneline (lines 21-31).                       *)
(***************************************************************************)
\* line 21: the output is opened without a mode, that is for reading
FlatOpen ==
    /\ pc = "flat_open"
    /\ IF fout.exists
       THEN /\ fout' = [fout EXCEPT !.mode = "r"]
            /\ pc' = "flat_loop"
            /\ UNCHANGED err
       ELSE /\ pc' = "raised"
            /\ err' = "FileNotFoundError"
            /\ UNCHANGED fout
    /\ UNCHANGED <<fin, pos, flatVars, shiftVars, blastVars, gbkVars>>

\* one iteration of the loop (lines 23-30)
FlatLine ==
    /\ pc = "flat_loop"
    /\ pos < Len(fin)
    /\ pos' = pos + 1
    /\ LET line == fin[pos + 1]
       IN  IF StartsWith(line, ">")
           THEN IF Writable(fout)
                THEN /\ fout' = [fout EXCEPT !.data =
                                   @ \o (IF seq # <<>> THEN seq \o <<NL>> ELSE <<>>) \o line]
                     /\ seq' = <<>>
                     /\ UNCHANGED <<pc, err>>
                ELSE /\ pc' = "raised"
                     /\ err' = "UnsupportedOperation"
                     /\ fout' = [fout EXCEPT !.mode = "closed"]
                     /\ UNCHANGED seq
           ELSE /\ seq' = seq \o <<NL>>
                /\ UNCHANGED <<pc, err, fout>>
    /\ UNCHANGED <<fin, shiftVars, blastVars, gbkVars>>

\* after the loop (line 31)
FlatEnd ==
    /\ pc = "flat_loop"
    /\ pos = Len(fin)
    /\ IF Writable(fout)
       THEN /\ fout' = [fout EXCEPT !.data = @ \o seq, !.mode = "closed"]
            /\ pc' = "done"
            /\ UNCHANGED err
       ELSE /\ pc' = "raised"
            /\ err' = "UnsupportedOperation"
            /\ fout' = [fout EXCEPT !.mode = "closed"]
    /\ UNCHANGED <<fin, pos, flatVars, shiftVars, blastVars, gbkVars>>

InitFlat ==
    /\ pc = "flat_open" /\ err = "none"
    /\ fin \in FastaFiles /\ pos = 0
    /\ fout \in {NoFile, [exists |-> TRUE, mode |-> "closed", data |-> OldData]}
    /\ IdleFlat /\ IdleShift /\ IdleBlast /\ IdleGbk

NextFlat == FlatOpen \/ FlatLine \/ FlatEnd
SpecFlat == InitFlat /\ [][NextFlat]_vars

(***************************************************************************)
(* change_fasta_start_pos (lines 117-122).                                 *)
(***************************************************************************)
\* line[shift:] + line[:shift] with one character lost
RotatedOffByOne(line, n) == PySliceFrom(line, n + 1) \o PySliceTo(line, n)

\* f'{line[shift:]}{line[:shift]}' (line 122)
Rotated(line, n) == PySliceFrom(line, n) \o PySliceTo(line, n)

\* line 117
ShiftOpen ==
    /\ pc = "shift_open"
    /\ pc' = "shift_loop"
    /\ fout' = [exists |-> TRUE, mode |-> "w", data |-> <<>>]
    /\ UNCHANGED <<err, fin, pos, flatVars, shiftVars, blastVars, gbkVars>>

\* one iteration of the loop (lines 118-122)
ShiftLine ==
    /\ pc = "shift_loop"
    /\ pos < Len(fin)
    /\ pos' = pos + 1
    /\ LET line == fin[pos + 1]
       IN  fout' = [fout EXCEPT !.data =
                      @ \o (IF StartsWith(line, ">") THEN line \o <<NL>>
                            ELSE Rotated(line, shift))]
    /\ UNCHANGED <<pc, err, fin, flatVars, shiftVars, blastVars, gbkVars>>

ShiftEnd ==
    /\ pc = "shift_loop"
    /\ pos = Len(fin)
    /\ pc' = "done"
    /\ fout' = [fout EXCEPT !.mode = "closed"]
    /\ UNCHANGED <<err, fin, pos, flatVars, shiftVars, blastVars, gbkVars>>

InitShift ==
    /\ pc = "shift_open" /\ err = "none"
    /\ fin \in FastaFiles /\ pos = 0 /\ fout = NoFile
    /\ shift \in (-1)..MaxShift
    /\ IdleFlat /\ IdleBlast /\ IdleGbk

NextShift == ShiftOpen \/ ShiftLine \/ ShiftEnd
SpecShift == InitShift /\ [][NextShift]_vars

(***************************************************************************)
(* parse_blast_output (lines 137-157).  A line of a report is a sequence   *)
(* of tokens: the literals the scan tests for, the four-space separator,   *)
(* other text, and the newline.                                            *)
(***************************************************************************)
QueryTag == "Query #"
DescriptionTag == "Description  "
FourSpaces == "    "

BlastLines ==
    { <<QueryTag, "1", NL>>,
      <<DescriptionTag, "Name", NL>>,
      <<"a", FourSpaces, "b", NL>>,
      <<"b", FourSpaces, "a", FourSpaces, NL>>,
      <<"a", NL>> }

\* line.split('    ')[0] returning the whole line
SplitWholeLine(line) == line

\* line.split('    ')[0]
SplitFirst(line) ==
    IF \E i \in 1..Len(line) : line[i] = FourSpaces
    THEN SubSeq(line, 1, (CHOOSE i \in 1..Len(line) :
                              /\ line[i] = FourSpaces
                              /\ \A j \in 1..(i - 1) : line[j] # FourSpaces) - 1)
    ELSE line

\* BlastLine with the flags left set after a capture
BlastLineKeepsFlags(line) ==
    /\ pc = "blast_loop"
    /\ fin' = Append(fin, line)
    /\ pos' = pos + 1
    /\ IF StartsWith(line, QueryTag)
       THEN /\ query' = TRUE
            /\ UNCHANGED <<description, best_blast_results>>
       ELSE IF query /\ StartsWith(line, DescriptionTag)
       THEN /\ description' = TRUE
            /\ UNCHANGED <<query, best_blast_results>>
       ELSE IF query /\ description
       THEN /\ best_blast_results' = Append(best_blast_results, SplitFirst(line))
            /\ UNCHANGED <<query, description>>
       ELSE UNCHANGED <<query, description, best_blast_results>>
    /\ UNCHANGED <<pc, err, fout, flatVars, shiftVars, gbkVars>>

\* one iteration of the loop (lines 141-150)
BlastLine(line) ==
    /\ pc = "blast_loop"
    /\ fin' = Append(fin, line)
    /\ pos' = pos + 1
    /\ IF StartsWith(line, QueryTag)
       THEN /\ query' = TRUE
            /\ UNCHANGED <<description, best_blast_results>>
       ELSE IF query /\ StartsWith(line, DescriptionTag)
       THEN /\ description' = TRUE
            /\ UNCHANGED <<query, best_blast_results>>
       ELSE IF query /\ description
       THEN /\ best_blast_results' = Append(best_blast_results, SplitFirst(line))
            /\ query' = FALSE
            /\ description' = FALSE
       ELSE UNCHANGED <<query, description, best_blast_results>>
    /\ UNCHANGED <<pc, err, fout, flatVars, shiftVars, gbkVars>>

\* the text the writing loop produces (lines 156-157)
RECURSIVE BlastOutput(_)
BlastOutput(results) ==
    IF results = <<>> THEN <<>>
    ELSE Head(results) \o <<NL>> \o BlastOutput(Tail(results))

\* the report is exhausted: the output file is written (lines 151-157)
BlastWrite ==
    /\ pc = "blast_loop"
    /\ pc' = "done"
    /\ fout' = [exists |-> TRUE, mode |-> "closed", data |-> BlastOutput(best_blast_results)]
    /\ UNCHANGED <<err, fin, pos, flatVars, shiftVars, blastVars, gbkVars>>

InitBlast ==
    /\ pc = "blast_loop" /\ err = "none"
    /\ IdleIo /\ IdleFlat /\ IdleShift /\ IdleBlast /\ IdleGbk

ReadBlastLine == \E line \in BlastLines : Len(fin) < MaxBlastLines /\ BlastLine(line)

NextBlast == ReadBlastLine \/ BlastWrite
SpecBlast == InitBlast /\ [][NextBlast]_vars

(***************************************************************************)
(* Properties of select_genes_from_gbk_to_fasta.                           *)
(***************************************************************************)
\* the gene the selection loop took last, and its place in the coordinate list
LastGene     == genes[Len(genes)]
LastHasPos   == /\ genes # <<>>
                /\ LastGene \in DOMAIN genes_names_dict
                /\ InList(cds_coord_list, genes_names_dict[LastGene])
LastPosition == ListIndex(cds_coord_list, genes_names_dict[LastGene])
Following    == Len(cds_coord_list) - 1 - LastPosition
ValidationErrors == {TooManyBefore, TooManyAfter}
LastLineIsOrigin == gbk # <<>> /\ IsOriginLine(gbk[Len(gbk)])

\* C1: whenever n_after exceeds the number of entries that follow the
\* requested gene (n_after > L - 1 - p), the call has failed with a
\* validation error once the gene has been processed.
C1_AfterRejected ==
    (LastHasPos /\ n_after > Following)
        => (pc = "raised" /\ err \in ValidationErrors)

\* C2: once the ORIGIN line that follows a CDS line has been processed, the
\* recording flag is clear and every coordinate of the ordered list, the
\* last one included, has its entry (with the gene name) in the lookup.
C2_OriginFinalizes ==
    (LastLineIsOrigin /\ cds_coord_list # <<>>)
        => /\ ~record_translation
           /\ \A i \in 1..Len(cds_coord_list) : cds_coord_list[i] \in DOMAIN coord_cds_dict
           /\ coord_cds_dict[coord][1] = gene_name

\* C4: when the selection for the gene at position p passes validation, the
\* window is the entries at positions p - n_before .. p + n_after of the
\* ordered list, n_before + n_after + 1 of them.
C4_WindowExact ==
    (pc = "select" /\ LastHasPos)
        => /\ Len(cds_of_interest) = n_before + n_after + 1
           /\ \A k \in 0..(n_before + n_after) :
                  /\ LastPosition - n_before + k + 1 \in 1..Len(cds_coord_list)
                  /\ cds_of_interest[k + 1] = cds_coord_list[LastPosition - n_before + k + 1]

\* C5: a call that ends in an error has created no output file.
C5_NoOutputOnError ==
    pc = "raised" => ~fasta.exists

\* C6: every gene name of the gene index maps to a coordinate that is in the
\* ordered coordinate list.
C6_IndexInList ==
    \A g \in DOMAIN genes_names_dict : InList(cds_coord_list, genes_names_dict[g])

\* C10: once a requested gene at position p has been processed, n_before > p
\* has made the call fail with the "before" validation error (also when
\* n_after is excessive too); the "before" error is raised only then, the
\* "after" error only when n_before is not excessive and n_after is, and the
\* two errors differ.
C10_BeforeRejected ==
    /\ TooManyBefore # TooManyAfter
    /\ LastHasPos =>
          /\ (n_before > LastPosition) => (pc = "raised" /\ err = TooManyBefore)
          /\ (err = TooManyBefore) => (n_before > LastPosition)
          /\ (err = TooManyAfter) => (n_before <= LastPosition /\ n_after > Following)

\* C10's case: both neighbour counts are excessive for a gene that is not the
\* first entry, and the "before" error is the one raised.
C10_Witness ==
    /\ pc = "raised" /\ err = TooManyBefore
    /\ LastHasPos /\ LastPosition >= 1
    /\ n_before > LastPosition /\ n_after > Following + 1

\* C11: once the loop has taken a requested gene (at any place of the list)
\* that has no coordinate in the gene index, the call has failed with a
\* lookup error, no further gene is taken, the selection of the genes before
\* it is left as it was and no output file exists.
C11_MissingGeneAborts ==
    (genes # <<>> /\ LastGene \notin DOMAIN genes_names_dict)
        => /\ pc = "raised" /\ err = KeyError
           /\ ~fasta.exists /\ written = 0
           /\ ~ENABLED Next

\* C11's case: the second requested gene is missing from the index after the
\* first one was selected.
C11_Witness ==
    /\ pc = "raised" /\ err = KeyError /\ Len(genes) = 2
    /\ genes[1] \in DOMAIN genes_names_dict
    /\ genes[2] \notin DOMAIN genes_names_dict
    /\ cds_of_interest # <<>>

\* the coordinates of the `CDS ` lines of a file, in their order
RECURSIVE CdsCoordsOf(_)
CdsCoordsOf(f) ==
    IF f = <<>> THEN <<>>
    ELSE (IF f[1].kind = "CDS" THEN <<f[1].val[1]>> ELSE <<>>) \o CdsCoordsOf(Tail(f))

\* C12: the ordered coordinate list holds one entry per `CDS ` line read, in
\* the order of the lines, a repeated coordinate being kept each time.
C12_ListMatchesCdsLines ==
    /\ Len(cds_coord_list) = Cardinality({i \in 1..Len(gbk) : gbk[i].kind = "CDS"})
    /\ cds_coord_list = CdsCoordsOf(gbk)

\* C12's case: the scan ended on a file with three CDS lines, one coordinate
\* occurring twice, and other lines between them.
C12_Witness ==
    /\ pc = "select" /\ Len(cds_coord_list) = 3 /\ Len(gbk) = 5
    /\ cds_coord_list[1] = cds_coord_list[3]
    /\ cds_coord_list[1] # cds_coord_list[2]

\* the file read so far starts with a CDS line and its last line ends a CDS
\* entry (a `CDS ` line or ORIGIN); PrevCds is the line of the entry it ends
StartsWithCds == gbk # <<>> /\ gbk[1].kind = "CDS"
AtFinalization ==
    /\ Len(gbk) >= 2 /\ StartsWithCds
    /\ gbk[Len(gbk)].kind \in {"CDS", "ORIGIN"}
PrevCds ==
    CHOOSE i \in 1..(Len(gbk) - 1) :
        /\ gbk[i].kind = "CDS"
        /\ \A j \in (i + 1)..(Len(gbk) - 1) : gbk[j].kind # "CDS"
PrevCoord == gbk[PrevCds].val[1]
\* the lines of the entry being ended, its `CDS ` line excluded
PrevBody == SubSeq(gbk, PrevCds + 1, Len(gbk) - 1)
DistinctCoords ==
    \A i, j \in 1..Len(cds_coord_list) : cds_coord_list[i] = cds_coord_list[j] => i = j

\* C13: a CDS entry with no /gene line between its `CDS ` line and the line
\* that finalizes it is stored in the lookup with the empty gene name.
C13_NoGeneMeansEmptyName ==
    (/\ AtFinalization /\ DistinctCoords
     /\ \A k \in 1..Len(PrevBody) : PrevBody[k].kind # "gene"
     /\ PrevCoord \in DOMAIN coord_cds_dict)
        => coord_cds_dict[PrevCoord][1] = ""

\* the text of the /translation block of an entry: the text after the opening
\* quote up to the line that carries the closing quote
RECURSIVE BlockText(_, _)
BlockText(body, open) ==
    IF body = <<>> THEN <<>>
    ELSE IF ~open
         THEN IF Head(body).kind = "translation"
              THEN Head(body).val \o (IF Head(body).closed THEN <<>>
                                       ELSE BlockText(Tail(body), TRUE))
              ELSE BlockText(Tail(body), FALSE)
         ELSE Head(body).text \o (IF Head(body).closed THEN <<>>
                                   ELSE BlockText(Tail(body), TRUE))

\* every /translation block of the body is closed by the line that opens it or
\* by text lines that follow it
RECURSIVE BlocksClosed(_, _)
BlocksClosed(body, open) ==
    IF body = <<>> THEN ~open
    ELSE IF open
         THEN Head(body).kind = "text" /\ BlocksClosed(Tail(body), ~Head(body).closed)
         ELSE IF Head(body).kind = "translation"
              THEN BlocksClosed(Tail(body), ~Head(body).closed)
              ELSE Head(body).kind # "text" /\ BlocksClosed(Tail(body), FALSE)

\* C14: the translation stored for a CDS entry is the text of its
\* /translation block only; the lines after the closing quote add nothing.
C14_TranslationIsBlockOnly ==
    (/\ AtFinalization /\ DistinctCoords
     /\ BlocksClosed(PrevBody, FALSE)
     /\ Cardinality({k \in 1..Len(PrevBody) : PrevBody[k].kind = "translation"}) <= 1
     /\ PrevCoord \in DOMAIN coord_cds_dict)
        => coord_cds_dict[PrevCoord][2] = BlockText(PrevBody, FALSE)

\* the window of the gene taken last, from the ordered list
LastWindow ==
    [k \in 1..(Min(LastPosition + n_after + 1, Len(cds_coord_list))
                 - (LastPosition - n_before))
        |-> cds_coord_list[LastPosition - n_before + k]]

\* the records of a window
RECURSIVE RecordsOf(_)
RecordsOf(window) ==
    IF window = <<>> THEN <<>>
    ELSE FastaRecord(Head(window), coord_cds_dict[Head(window)]) \o RecordsOf(Tail(window))

\* C15: when the requested genes all passed lookup and validation, the window
\* kept for the output is the window of the last gene of the list and the
\* finished output holds the records of that window only; with no requested
\* gene the window and the output are empty.
C15_LastWindowOnly ==
    (pc \in {"write", "done"})
        => /\ genes = <<>> => (cds_of_interest = <<>> /\ fasta.data = <<>>)
           /\ genes # <<>> => (LastHasPos /\ cds_of_interest = LastWindow)
           /\ pc = "done" => fasta.data = RecordsOf(cds_of_interest)

\* C15's case: two genes with different windows were requested and the
\* output is finished.
C15_Witness ==
    /\ pc = "done" /\ Len(genes) = 2
    /\ genes_names_dict[genes[1]] # genes_names_dict[genes[2]]
    /\ cds_of_interest = <<genes_names_dict[genes[2]]>>
    /\ fasta.data # <<>>

\* C18: when the selection for a gene at position p has passed validation,
\* p - n_before >= 0 and the window is the non-empty run of consecutive
\* entries of the ordered list that starts at index p - n_before, with the
\* gene's own coordinate at offset n_before.
C18_WindowContiguous ==
    (pc \in {"select", "write", "done"} /\ genes # <<>>)
        => /\ LastHasPos
           /\ LastPosition - n_before >= 0
           /\ Len(cds_of_interest) >= n_before + 1
           /\ LastPosition - n_before + Len(cds_of_interest) <= Len(cds_coord_list)
           /\ \A k \in 1..Len(cds_of_interest) :
                  cds_of_interest[k] = cds_coord_list[LastPosition - n_before + k]
           /\ cds_of_interest[n_before + 1] = genes_names_dict[LastGene]

\* C18's case: a window with neighbours on both sides that starts at the
\* first entry of the list.
C18_Witness ==
    /\ pc = "select" /\ LastHasPos
    /\ n_before >= 1 /\ LastPosition = n_before /\ n_after >= 1
    /\ Len(cds_of_interest) = n_before + n_after + 1

\* C19: after the scan of a file that starts with a CDS line and ends with
\* ORIGIN, every gene name g of the gene index that maps to coordinate c has
\* a lookup entry under c that carries the gene name g.
C19_IndexNameMatchesEntry ==
    (pc = "select" /\ StartsWithCds /\ LastLineIsOrigin)
        => \A g \in DOMAIN genes_names_dict :
              /\ genes_names_dict[g] \in DOMAIN coord_cds_dict
              /\ coord_cds_dict[genes_names_dict[g]][1] = g

(***************************************************************************)
(* Properties of convert_multiline_fasta_to_oneline.                       *)
(***************************************************************************)
IsHeader(line) == StartsWith(line, ">")
Content(line)  == IF Terminated(line) THEN SubSeq(line, 1, Len(line) - 1) ELSE line
CallEnded      == pc \in {"done", "raised"}

\* every record of the file is a header line followed by at least one
\* sequence line, and every line ends with a newline
MultilineFasta(f) ==
    /\ f # <<>>
    /\ IsHeader(f[1])
    /\ ~IsHeader(f[Len(f)])
    /\ \A i \in 1..Len(f) : Terminated(f[i])
    /\ \A i \in 1..(Len(f) - 1) : IsHeader(f[i]) => ~IsHeader(f[i + 1])

\* every record is a header line followed by exactly one sequence line
OnelineFasta(f) ==
    /\ MultilineFasta(f)
    /\ \A i \in 1..(Len(f) - 1) : ~IsHeader(f[i]) => IsHeader(f[i + 1])

\* the flattened text of a file: headers unchanged, the sequence lines of a
\* record joined without their newlines into one line
RECURSIVE Flattened(_, _)
Flattened(f, acc) ==
    IF f = <<>> THEN (IF acc # <<>> THEN acc \o <<NL>> ELSE <<>>)
    ELSE IF IsHeader(Head(f))
         THEN (IF acc # <<>> THEN acc \o <<NL>> ELSE <<>>) \o Head(f) \o Flattened(Tail(f), <<>>)
         ELSE Flattened(Tail(f), acc \o Content(Head(f)))

\* C3: for a FASTA input whose records have their sequence on N >= 1 lines,
\* the call ends without an error and the output holds each header line
\* unchanged followed by one line that is the concatenation of the record's
\* sequence lines without their newlines.
C3_FlattenJoinsLines ==
    (CallEnded /\ MultilineFasta(fin))
        => (err = "none" /\ fout.exists /\ fout.data = Flattened(fin, <<>>))

\* C9: for an input that is already flattened, the call ends without an
\* error and the output is the input, byte for byte.
C9_FlattenIdempotent ==
    (CallEnded /\ OnelineFasta(fin))
        => (err = "none" /\ fout.exists /\ fout.data = Join(fin))

HasSeparator(line) == \E i \in 1..Len(line) : line[i] = FourSpaces

\* a detail line: neither a `Query #` nor a `Description  ` line, and it
\* holds a run of four spaces
IsDetail(line) ==
    /\ ~StartsWith(line, QueryTag)
    /\ ~StartsWith(line, DescriptionTag)
    /\ HasSeparator(line)

\* the report is K blocks: a `Query #` line, a `Description  ` line and one
\* detail line
BlockReport(f) ==
    /\ Len(f) % 3 = 0
    /\ \A b \in 1..(Len(f) \div 3) :
          /\ StartsWith(f[3 * b - 2], QueryTag)
          /\ StartsWith(f[3 * b - 1], DescriptionTag)
          /\ IsDetail(f[3 * b])

\* the content of a detail line up to its first run of four spaces
UpToSeparator(line) ==
    CHOOSE p \in {SubSeq(line, 1, n) : n \in 0..Len(line)} :
        /\ \A i \in 1..Len(p) : p[i] # FourSpaces
        /\ line[Len(p) + 1] = FourSpaces

\* number of lines of a text
RECURSIVE LineCount(_)
LineCount(text) ==
    IF text = <<>> THEN 0
    ELSE (IF Head(text) = NL THEN 1 ELSE 0) + LineCount(Tail(text))

\* C8: for a report of K blocks (Query # line, Description line, detail
\* line) the output has exactly K lines, in block order, the b-th being the
\* b-th detail line's content up to its first run of four spaces.
C8_BlockReportOutput ==
    (pc = "done" /\ BlockReport(fin))
        => /\ LineCount(fout.data) = Len(fin) \div 3
           /\ Len(best_blast_results) = Len(fin) \div 3
           /\ \A b \in 1..(Len(fin) \div 3) : best_blast_results[b] = UpToSeparator(fin[3 * b])
           /\ fout.data = BlastOutput([b \in 1..(Len(fin) \div 3) |-> UpToSeparator(fin[3 * b])])

\* C8's case: a report of two blocks with different detail lines is written.
C8_Witness ==
    /\ pc = "done" /\ BlockReport(fin) /\ Len(fin) = 6
    /\ UpToSeparator(fin[3]) # UpToSeparator(fin[6])
    /\ LineCount(fout.data) = 2

\* number of `Query #` lines read so far
QueryCount == Cardinality({i \in 1..Len(fin) : StartsWith(fin[i], QueryTag)})

\* C16: at most one description is captured per `Query #` block: the captured
\* results, plus one while a query is open, never outnumber the `Query #`
\* lines read; the description flag is set only while a query is open (a
\* `Description  ` line with no open query enables nothing), and both flags
\* are clear after a capture until the next `Query #` line.
C16_OneCapturePerQuery ==
    /\ Len(best_blast_results) + (IF query THEN 1 ELSE 0) <= QueryCount
    /\ description => query
    /\ (QueryCount = 0) => (~query /\ ~description /\ best_blast_results = <<>>)

\* C16's case: one block with a capture, followed by further detail and
\* `Description  ` lines that are not captured.
C16_Witness ==
    /\ pc = "done" /\ Len(fin) = 6 /\ QueryCount = 1
    /\ Len(best_blast_results) = 1
    /\ StartsWith(fin[1], QueryTag) /\ StartsWith(fin[2], DescriptionTag)
    /\ IsDetail(fin[4]) /\ StartsWith(fin[5], DescriptionTag) /\ IsDetail(fin[6])

\* the captures the claim C17 describes: with a query open, the line right
\* after the first `Description  ` line is captured, whatever it is
RECURSIVE NextLineCaptures(_, _, _)
NextLineCaptures(f, q, d) ==
    IF f = <<>> THEN <<>>
    ELSE IF q /\ d THEN <<SplitFirst(Head(f))>> \o NextLineCaptures(Tail(f), FALSE, FALSE)
    ELSE IF StartsWith(Head(f), QueryTag) THEN NextLineCaptures(Tail(f), TRUE, d)
    ELSE IF q /\ StartsWith(Head(f), DescriptionTag) THEN NextLineCaptures(Tail(f), q, TRUE)
    ELSE NextLineCaptures(Tail(f), q, d)

\* C17: within an open query block the line captured is the line right after
\* the first `Description  ` line, also when that line starts with `Query #`
\* or `Description  `.
C17_CapturesNextLine ==
    best_blast_results = NextLineCaptures(fin, FALSE, FALSE)

====
